---- MODULE Spec2Model ----
(***************************************************************************)
(* Model of andrnx/gnsslogger.py: the measurement-processing engine that   *)
(* turns Android GNSS Logger rows into RINEX observables.                  *)
(*                                                                         *)
(* Number representation.  The program computes with Python floats; the    *)
(* model computes with exact integers in scaled units:                     *)
(*   - every quantity the program holds in nanoseconds or in seconds is    *)
(*     held in ticks, TicksPerSec ticks to the second (so the factor       *)
(*     NS_TO_S becomes the identity on ticks, and a literal number of      *)
(*     seconds s of the program is Secs(s) ticks);                         *)
(*   - carrier frequencies are held in units of 10 kHz (the chip rate      *)
(*     10.23e6 Hz is CHIP_RATE = 1023);                                    *)
(*   - lengths are held in light-ticks (the distance light travels in one  *)
(*     tick) and speeds in light-ticks per tick, so that SPEED_OF_LIGHT    *)
(*     is 1; a wavelength, SPEED_OF_LIGHT / frequency, is kept as that     *)
(*     fraction.                                                           *)
(* Floating-point rounding error is not modelled.                          *)
(*                                                                         *)
(* Python values.  A dict is a function on its set of keys.  A float field *)
(* of a log row is Num(n) when the parser converted it and Str(s) when it  *)
(* left the text as it was.  A call that may raise returns Ok(v) or        *)
(* Raise(exception, detail).                                               *)
(***************************************************************************)
EXTENDS Integers, Sequences, FiniteSets, TLC

VARIABLES
    op,            \* name of the operation applied last ("" before any)
    measdict,      \* merge: the sequence passed in (references or None)
    heap,          \* merge: the dict objects, by address
    res,           \* merge: the value returned (a reference or None)
    measurement,   \* process, get_obscode, get_satname: the row passed in
    options,       \* process: fullbiasnanos, integerize, pseudorange_bias
    batches,       \* get_obslist, get_glo_freq_chn_list: the batches
    tRxSeconds,    \* check_week_crossover: reception time
    tTxSeconds,    \* check_week_crossover: transmit time
    frequency,     \* get_rnx_band_from_freq: its argument
    lines,         \* raw_batches: the lines of the log file
    gen,           \* raw_batches: the generator's position and its batch
    outcome        \* what the operation returned or raised

vars == <<op, measdict, heap, res, measurement, options, batches,
          tRxSeconds, tTxSeconds, frequency, lines, gen, outcome>>

----------------------------------------------------------------------------
(* Python values *)

None == [none |-> TRUE]
Num(n) == [num |-> n]
Str(s) == [str |-> s]
IsNum(x) == DOMAIN x = {"num"}
Ok(v) == [ok |-> TRUE, v |-> v]
Raise(e, d) == [ok |-> FALSE, exc |-> e, msg |-> d]
NotRun == [ok |-> FALSE, exc |-> "", msg |-> 0]

\* abs()
Abs(n) == IF n < 0 THEN -n ELSE n

\* int(x) of the float n/d (d > 0): truncation towards zero
TruncDiv(n, d) == IF n >= 0 THEN n \div d ELSE -((-n) \div d)

\* math.floor(n/d), d > 0
FloorDiv(n, d) == n \div d

\* round(n/d), d > 0: Python 3 rounds halves to the even neighbour
RoundDiv(n, d) ==
    LET q == n \div d
        r == n % d
    IN  IF 2 * r < d THEN q
        ELSE IF 2 * r > d THEN q + 1
        ELSE IF q % 2 = 0 THEN q ELSE q + 1

\* state & flag, for a flag of a single bit
BitAnd(state, flag) == IF (state \div flag) % 2 = 1 THEN flag ELSE 0

----------------------------------------------------------------------------
(* Module constants *)

STATE_BIT_SYNC == 2
STATE_CODE_LOCK == 1
STATE_GAL_E1BC_CODE_LOCK == 1024
STATE_GAL_E1B_PAGE_SYNC == 4096
STATE_GAL_E1C_2ND_CODE_LOCK == 2048
STATE_GLO_STRING_SYNC == 64
STATE_GLO_TOD_DECODED == 128
STATE_SBAS_SYNC == 8192
STATE_SUBFRAME_SYNC == 4
STATE_SYMBOL_SYNC == 32
STATE_TOW_DECODED == 8

ADR_STATE_VALID == 1

TicksPerSec == 4
Secs(s) == s * TicksPerSec

SPEED_OF_LIGHT == 1
GPS_WEEKSECS == 604800
BDST_TO_GPST == 14
GLOT_TO_UTC == 10800
DAYSEC == 86400
CURRENT_GPS_LEAP_SECOND == 18
OBS_LIST == <<"C", "L", "D", "S">>
EPOCH_STR == "epoch"

CHIP_RATE == 1023
GLO_L1_CENTER_FREQ == 160200
\* GLO_L1_DFREQ is 56.25 units of 10 kHz: kept as the fraction 225/4
GLO_L1_DFREQ_NUM == 225
GLO_L1_DFREQ_DEN == 4

CONSTELLATION_GPS == 1
CONSTELLATION_SBAS == 2
CONSTELLATION_GLONASS == 3
CONSTELLATION_QZSS == 4
CONSTELLATION_BEIDOU == 5
CONSTELLATION_GALILEO == 6
CONSTELLATION_UNKNOWN == 0

CONSTELLATION_LETTER ==
    (CONSTELLATION_GPS :> "G") @@ (CONSTELLATION_SBAS :> "S") @@
    (CONSTELLATION_GLONASS :> "R") @@ (CONSTELLATION_QZSS :> "J") @@
    (CONSTELLATION_BEIDOU :> "C") @@ (CONSTELLATION_GALILEO :> "E") @@
    (CONSTELLATION_UNKNOWN :> "X")

----------------------------------------------------------------------------
(* String formatting *)

Digit == <<"0", "1", "2", "3", "4", "5", "6", "7", "8", "9">>

\* '{0:d}'.format(n) for n >= 0
RECURSIVE FormatD(_)
FormatD(n) == IF n < 10 THEN Digit[n + 1]
              ELSE FormatD(n \div 10) \o Digit[(n % 10) + 1]

\* '{0:02d}'.format(n) for n >= 0: zero-padded to a width of at least two
Format02d(n) == IF n < 10 THEN "0" \o FormatD(n) ELSE FormatD(n)

----------------------------------------------------------------------------
(* Frequency/band classifier *)

\* A variant of get_rnx_band_from_freq whose band 1 starts at multiplier 152
get_rnx_band_from_freq_152(f) ==
    LET ifreq == IF f = Str("") THEN 154 ELSE RoundDiv(f.num, CHIP_RATE)
    IN  IF ifreq >= 152 THEN Ok(1)
        ELSE IF ifreq = 115 THEN Ok(5)
        ELSE IF ifreq = 153 THEN Ok(2)
        ELSE Raise("ValueError", ifreq)

get_rnx_band_from_freq(f) ==
    LET ifreq == IF f = Str("") THEN 154 ELSE RoundDiv(f.num, CHIP_RATE)
    IN  IF ifreq >= 154 THEN Ok(1)
        ELSE IF ifreq = 115 THEN Ok(5)
        ELSE IF ifreq = 153 THEN Ok(2)
        ELSE Raise("ValueError", ifreq)

get_rnx_attr(band, constellation, state) ==
    LET a1 == IF band = 1 /\ constellation = "E"
                 /\ BitAnd(state, STATE_GAL_E1C_2ND_CODE_LOCK) = 0
                 /\ BitAnd(state, STATE_GAL_E1B_PAGE_SYNC) # 0
              THEN "B" ELSE "C"
        a2 == IF band = 5 THEN "Q" ELSE a1
    IN  IF band = 2 /\ constellation = "C" THEN "I" ELSE a2

\* measurement[key]: a KeyError when the mapping has no such key
HasKey(m, key) == key \in DOMAIN m

get_frequency(m) ==
    LET v == m["CarrierFrequencyHz"]
    IN  IF v = Str("") THEN Num(154 * CHIP_RATE) ELSE v

get_constellation(m) ==
    IF ~HasKey(m, "ConstellationType") THEN Raise("KeyError", 0)
    ELSE LET ctype == m["ConstellationType"]
         IN  IF ctype \in DOMAIN CONSTELLATION_LETTER
             THEN Ok(CONSTELLATION_LETTER[ctype])
             ELSE Raise("KeyError", ctype)

\* A variant of get_satname that reports GLONASS frequency channel numbers
\* (Svid above 50) as satellite ids instead of raising
get_satname_fcn(m) ==
    LET c == get_constellation(m)
    IN  IF ~c.ok THEN c
        ELSE IF ~HasKey(m, "Svid") THEN Raise("KeyError", 0)
        ELSE Ok(c.v \o Format02d(m["Svid"]))

get_satname(m) ==
    LET c == get_constellation(m)
    IN  IF ~c.ok THEN c
        ELSE IF ~HasKey(m, "Svid") THEN Raise("KeyError", 0)
        ELSE LET svid == m["Svid"]
                 satname == c.v \o Format02d(svid)
             IN  IF svid > 50 /\ c.v = CONSTELLATION_LETTER[CONSTELLATION_GLONASS]
                 THEN Raise("ValueError", svid)
                 ELSE Ok(satname)

get_obscode(m) ==
    IF ~HasKey(m, "CarrierFrequencyHz") THEN Raise("KeyError", 0)
    ELSE LET band == get_rnx_band_from_freq(get_frequency(m))
             c == get_constellation(m)
         IN  IF ~band.ok THEN band
             ELSE IF ~c.ok THEN c
             ELSE IF ~HasKey(m, "State") THEN Raise("KeyError", 0)
             ELSE Ok(FormatD(band.v) \o get_rnx_attr(band.v, c.v, m["State"]))

----------------------------------------------------------------------------
(* Signal validity checker *)

\* A variant of check_adr_state that accepts every ADR state
check_adr_state_unchecked(m) == Ok(TRUE)

check_adr_state(m) ==
    LET state == m["AccumulatedDeltaRangeState"]
    IN  IF BitAnd(state, ADR_STATE_VALID) = 0
        THEN Raise("ValueError", ADR_STATE_VALID)
        ELSE Ok(TRUE)

\* The flags check_sync_state tests, in the order it tests them
SyncFlags(constellation, frequency_band, state) ==
    IF constellation = CONSTELLATION_GPS THEN
        <<STATE_CODE_LOCK, STATE_TOW_DECODED, STATE_BIT_SYNC, STATE_SUBFRAME_SYNC>>
    ELSE IF constellation = CONSTELLATION_SBAS THEN
        <<STATE_CODE_LOCK, STATE_TOW_DECODED, STATE_BIT_SYNC, STATE_SYMBOL_SYNC,
          STATE_SBAS_SYNC>>
    ELSE IF constellation = CONSTELLATION_GLONASS THEN
        <<STATE_CODE_LOCK, STATE_SYMBOL_SYNC, STATE_BIT_SYNC, STATE_GLO_TOD_DECODED,
          STATE_GLO_STRING_SYNC>>
    ELSE IF constellation = CONSTELLATION_QZSS THEN
        <<STATE_CODE_LOCK, STATE_TOW_DECODED, STATE_BIT_SYNC, STATE_SUBFRAME_SYNC>>
    ELSE IF constellation = CONSTELLATION_BEIDOU THEN
        <<STATE_CODE_LOCK, STATE_TOW_DECODED, STATE_BIT_SYNC, STATE_SUBFRAME_SYNC>>
    ELSE IF constellation = CONSTELLATION_GALILEO THEN
        IF frequency_band = 1 THEN
            IF BitAnd(state, STATE_GAL_E1C_2ND_CODE_LOCK) = 0
            THEN <<STATE_GAL_E1BC_CODE_LOCK, STATE_TOW_DECODED, STATE_BIT_SYNC,
                   STATE_GAL_E1B_PAGE_SYNC>>
            ELSE <<STATE_GAL_E1BC_CODE_LOCK, STATE_GAL_E1C_2ND_CODE_LOCK>>
        ELSE IF frequency_band = 5 THEN
            <<STATE_CODE_LOCK, STATE_TOW_DECODED, STATE_BIT_SYNC, STATE_SUBFRAME_SYNC>>
        ELSE <<>>
    ELSE \* CONSTELLATION_UNKNOWN
        <<STATE_CODE_LOCK, STATE_TOW_DECODED>>

\* The first flag of flags that state lacks, 0 when it has them all
RECURSIVE FirstMissing(_, _)
FirstMissing(state, flags) ==
    IF flags = <<>> THEN 0
    ELSE IF BitAnd(state, Head(flags)) = 0 THEN Head(flags)
    ELSE FirstMissing(state, Tail(flags))

check_sync_state(m) ==
    LET state == m["State"]
        constellation == m["ConstellationType"]
        frequency_band == get_rnx_band_from_freq(get_frequency(m))
    IN  IF ~frequency_band.ok THEN frequency_band
        ELSE IF constellation \notin DOMAIN CONSTELLATION_LETTER
        THEN Raise("ValueError", constellation)
        ELSE LET missing == FirstMissing(state,
                                SyncFlags(constellation, frequency_band.v, state))
             IN  IF missing # 0 THEN Raise("ValueError", missing) ELSE Ok(TRUE)

----------------------------------------------------------------------------
(* Time system converter.  A datetime is the number of ticks since GPSTIME *)
(* (1980-01-06 00:00:00, a Sunday).                                       *)

\* datetime.isoweekday() of the second secs after GPSTIME: Monday 1 .. Sunday 7
isoweekday(secs) ==
    LET d == FloorDiv(secs, DAYSEC) % 7
    IN  IF d = 0 THEN 7 ELSE d

glot_to_gpst(gpst_current_epoch, tod_seconds) ==
    LET tod_sec == TruncDiv(tod_seconds, TicksPerSec)
        \* the epoch to the second (its microseconds are not copied)
        glo_epoch == FloorDiv(gpst_current_epoch, TicksPerSec)
                         + 3 * 3600 - CURRENT_GPS_LEAP_SECOND
        glo_tod == FloorDiv(glo_epoch, DAYSEC) * DAYSEC + tod_sec
        day_of_week_sec == isoweekday(glo_tod) * DAYSEC
    IN  Secs(day_of_week_sec) + tod_seconds - Secs(GLOT_TO_UTC)
            + Secs(CURRENT_GPS_LEAP_SECOND)

check_week_crossover(tRx, tTx) ==
    LET tau == tRx - tTx
    IN  IF 2 * tau > Secs(GPS_WEEKSECS) THEN
            LET del_sec == RoundDiv(tau, Secs(GPS_WEEKSECS)) * Secs(GPS_WEEKSECS)
                rho_sec == tau - del_sec
            IN  IF rho_sec > Secs(10) THEN 0 ELSE rho_sec
        ELSE tau

----------------------------------------------------------------------------
(* Measurement processor *)

\* A return value together with the diagnostics written to sys.stderr
Return(v, diag) == [ok |-> TRUE, v |-> v, stderr |-> diag]

\* x / wavelength, the wavelength being the fraction w.n / w.d
DivByWavelength(x, w) == (x * w.d) \div w.n

\* The dict process returns
ProcessedMeasurement(gpst_epoch, satname, obscode, range, cphase, doppler, cn0) ==
    (EPOCH_STR :> gpst_epoch) @@
    (satname :> ((("C" \o obscode) :> range) @@ (("L" \o obscode) :> cphase) @@
                 (("D" \o obscode) :> doppler) @@ (("S" \o obscode) :> cn0)))

\* A variant of pseudorange that applies the correction for the integer
\* time stamp whatever the sync state is
pseudorange_corrected_always(sync_ok, tau, pseudorange_bias, integerize, frac, rate) ==
    (IF ~sync_ok THEN 0 ELSE tau * SPEED_OF_LIGHT - pseudorange_bias)
        - (IF integerize THEN frac * rate ELSE 0)

\* The range process computes from the travel time tau: 0 when
\* check_sync_state raised
pseudorange(sync_ok, tau, pseudorange_bias, integerize, frac, rate) ==
    IF ~sync_ok THEN 0
    ELSE tau * SPEED_OF_LIGHT - pseudorange_bias
             - (IF integerize THEN frac * rate ELSE 0)

\* The statements of process after the satellite name and the observable
\* code are known
process_body(m, satname, obscode, fullbiasnanos_arg, integerize, pseudorange_bias) ==
    LET fullbiasnanos == IF fullbiasnanos_arg = None THEN m["FullBiasNanos"]
                         ELSE fullbiasnanos_arg.num
        timenanos == m["TimeNanos"].num
        biasnanos == IF IsNum(m["BiasNanos"]) THEN m["BiasNanos"].num ELSE 0
        gpsweek == FloorDiv(-fullbiasnanos, Secs(GPS_WEEKSECS))
        local_est_GPS_time == timenanos - (fullbiasnanos + biasnanos)
        gpssow == local_est_GPS_time - gpsweek * Secs(GPS_WEEKSECS)
        frac == IF integerize
                THEN gpssow - Secs(TruncDiv(2 * gpssow + TicksPerSec, 2 * TicksPerSec))
                ELSE 0
        gpst_epoch == gpsweek * Secs(GPS_WEEKSECS) + (gpssow - frac)
        timeoffsetnanos == IF IsNum(m["TimeOffsetNanos"])
                           THEN m["TimeOffsetNanos"].num ELSE 0
        tRx == gpssow - timeoffsetnanos
        wavelength == [n |-> SPEED_OF_LIGHT, d |-> get_frequency(m).num]
        sync == check_sync_state(m)
        constellation == m["ConstellationType"]
        tTx == IF constellation = CONSTELLATION_GLONASS
               THEN glot_to_gpst(gpst_epoch, m["ReceivedSvTimeNanos"])
               ELSE IF constellation = CONSTELLATION_BEIDOU
               THEN m["ReceivedSvTimeNanos"] + Secs(BDST_TO_GPST)
               ELSE m["ReceivedSvTimeNanos"]
        tau == check_week_crossover(tRx, tTx)
        range == pseudorange(sync.ok, tau, pseudorange_bias, integerize, frac,
                             m["PseudorangeRateMetersPerSecond"])
        adr == check_adr_state(m)
        cphase == IF ~adr.ok THEN 0
                  ELSE DivByWavelength(m["AccumulatedDeltaRangeMeters"], wavelength)
        doppler == - DivByWavelength(m["PseudorangeRateMetersPerSecond"], wavelength)
        cn0 == m["Cn0DbHz"]
        diag == (IF sync.ok THEN <<>> ELSE <<"sync">>) \o
                (IF adr.ok THEN <<>> ELSE <<"adr">>)
    IN  IF ~IsNum(m["TimeNanos"]) THEN Raise("ValueError", 0)
        ELSE Return(ProcessedMeasurement(gpst_epoch, satname, obscode, range,
                                         cphase, doppler, cn0), diag)

\* A variant of process that catches whatever get_satname raises
process_catching_all(m, fullbiasnanos_arg, integerize, pseudorange_bias) ==
    LET satname == get_satname(m)
        obscode == get_obscode(m)
    IN  IF ~satname.ok THEN Return(None, <<"satname">>)
        ELSE IF ~obscode.ok THEN obscode
        ELSE process_body(m, satname.v, obscode.v, fullbiasnanos_arg, integerize,
                          pseudorange_bias)

process(m, fullbiasnanos_arg, integerize, pseudorange_bias) ==
    LET satname == get_satname(m)
        obscode == get_obscode(m)
    IN  IF ~satname.ok /\ satname.exc = "ValueError" THEN Return(None, <<"satname">>)
        ELSE IF ~satname.ok THEN satname
        ELSE IF ~obscode.ok THEN obscode
        ELSE process_body(m, satname.v, obscode.v, fullbiasnanos_arg, integerize,
                          pseudorange_bias)

----------------------------------------------------------------------------
(* Epoch merger.  merge works on dict objects: heap[a] is the dict at      *)
(* address a, Ref(a) a reference to it.  A ProcessedMeasurement maps       *)
(* EPOCH_STR to its epoch and each satellite to a reference to the dict    *)
(* of that satellite's observables.                                        *)

Ref(a) == [ref |-> a]

\* satsin = lambda x : [k for k in x.keys() if k is not EPOCH_STR]
satsin(x) == DOMAIN x \ {EPOCH_STR}

\* a.update(b): the dict a after it
update(a, b) ==
    [k \in DOMAIN a \cup DOMAIN b |-> IF k \in DOMAIN b THEN b[k] ELSE a[k]]

\* A variant of merge_sat that replaces the dict of a satellite and never
\* updates it
merge_sat_replace(h, r, m, exp_sats, sat) ==
    [h EXCEPT ![r.ref] = (sat :> h[m.ref][sat]) @@ @]

\* The body of the loop over got_sats, for one satellite
merge_sat(h, r, m, exp_sats, sat) ==
    IF sat \in exp_sats
    THEN [h EXCEPT ![h[r.ref][sat].ref] = update(@, h[h[m.ref][sat].ref])]
    ELSE [h EXCEPT ![r.ref] = (sat :> h[m.ref][sat]) @@ @]

\* for sat in got_sats: ...
RECURSIVE merge_sats(_, _, _, _, _)
merge_sats(h, r, m, exp_sats, got_sats) ==
    IF got_sats = {} THEN h
    ELSE LET sat == CHOOSE s \in got_sats : TRUE
         IN  merge_sats(merge_sat(h, r, m, exp_sats, sat), r, m, exp_sats,
                        got_sats \ {sat})

\* A variant of merge_entry that does not compare the epochs
merge_entry_any_epoch(st, m) ==
    IF m = None THEN st
    ELSE IF st.res = None THEN [st EXCEPT !.res = m]
    ELSE [st EXCEPT !.heap = merge_sats(st.heap, st.res, m,
                                        satsin(st.heap[st.res.ref]),
                                        satsin(st.heap[m.ref]))]

\* The body of the loop over measdict, for one entry m; st holds the heap,
\* res and the number of diagnostics written
merge_entry(st, m) ==
    IF m = None THEN st
    ELSE IF st.res = None THEN [st EXCEPT !.res = m]
    ELSE IF st.heap[m.ref][EPOCH_STR] # st.heap[st.res.ref][EPOCH_STR]
    THEN [st EXCEPT !.stderr = @ + 1]
    ELSE [st EXCEPT !.heap = merge_sats(st.heap, st.res, m,
                                        satsin(st.heap[st.res.ref]),
                                        satsin(st.heap[m.ref]))]

RECURSIVE merge_loop(_, _)
merge_loop(st, seq) ==
    IF seq = <<>> THEN st ELSE merge_loop(merge_entry(st, Head(seq)), Tail(seq))

\* merge(measdict) on heap h: the heap after the call, and the value returned
merge(h, seq) == merge_loop([heap |-> h, res |-> None, stderr |-> 0], seq)

\* The contents of the EpochRecord behind r: its epoch and, per satellite,
\* the observables
Deref(h, r) ==
    IF r = None THEN None
    ELSE [k \in DOMAIN h[r.ref] |->
            IF k = EPOCH_STR THEN h[r.ref][k] ELSE h[h[r.ref][k].ref]]

----------------------------------------------------------------------------
(* Specification SpecMerge: merge applied to a sequence of entries *)

\* Longest sequence passed to merge
MaxLen == 3

MergeEpochs == {1000, 1004}
MergeSats == {"G05", "E11"}
MergeObs == {("C1C" :> 100), ("C1C" :> 200), ("L1C" :> 5),
             ("C1C" :> 100) @@ ("L1C" :> 5)}

\* The entries of a sequence: None (a measurement process gave up on) or the
\* contents of a ProcessedMeasurement of one satellite
EntryValues ==
    {None} \cup {(EPOCH_STR :> e) @@ (sat :> obs) :
                    e \in MergeEpochs, sat \in MergeSats, obs \in MergeObs}

\* Entry i of a sequence has its own two dicts, at addresses 2i-1 and 2i
Alloc(entries) ==
    [a \in 1..(2 * Len(entries)) |->
        LET e == entries[(a + 1) \div 2]
        IN  IF e = None THEN <<>>
            ELSE IF a % 2 = 1
            THEN [k \in DOMAIN e |-> IF k = EPOCH_STR THEN e[k] ELSE Ref(a + 1)]
            ELSE e[CHOOSE k \in DOMAIN e : k # EPOCH_STR]]

Refs(entries) ==
    [i \in 1..Len(entries) |-> IF entries[i] = None THEN None ELSE Ref(2 * i - 1)]

\* No generator of raw_batches was created
NoGenerator == [pc |-> "none", pos |-> 0, batch |-> <<>>]

Idle ==
    /\ op = ""
    /\ outcome = NotRun
    /\ lines = <<>>
    /\ gen = NoGenerator

InitMerge ==
    /\ Idle
    /\ \E entries \in UNION {[1..n -> EntryValues] : n \in 0..MaxLen} :
          /\ measdict = Refs(entries)
          /\ heap = Alloc(entries)
    /\ res = None
    /\ measurement = <<>>
    /\ options = <<>>
    /\ batches = <<>>
    /\ tRxSeconds = 0
    /\ tTxSeconds = 0
    /\ frequency = Str("")

Merge ==
    /\ op = ""
    /\ LET st == merge(heap, measdict)
       IN  /\ heap' = st.heap
           /\ res' = st.res
           /\ outcome' = Return(st.res, st.stderr)
    /\ op' = "merge"
    /\ UNCHANGED <<measdict, measurement, options, batches, tRxSeconds,
                   tTxSeconds, frequency, lines, gen>>

NextMerge == Merge

SpecMerge == InitMerge /\ [][NextMerge]_vars

----------------------------------------------------------------------------
(* Properties of merge (SpecMerge) *)

EpochOf(h, r) == h[r.ref][EPOCH_STR]

NonNone(seq) == {i \in 1..Len(seq) : seq[i] # None}

SameEpoch(h, seq) ==
    \A i, j \in NonNone(seq) : EpochOf(h, seq[i]) = EpochOf(h, seq[j])

\* The observables entry r carries for satellite sat
ObsOf(h, r, sat) == h[h[r.ref][sat].ref]

Carries(h, r, sat, key) ==
    /\ r # None
    /\ sat \in satsin(h[r.ref])
    /\ key \in DOMAIN ObsOf(h, r, sat)

\* Two entries give different values to one observable of one satellite
Conflict(h, seq) ==
    \E i, j \in NonNone(seq) :
        /\ i # j
        /\ \E sat \in satsin(h[seq[i].ref]) \cap satsin(h[seq[j].ref]) :
              \E key \in DOMAIN ObsOf(h, seq[i], sat) \cap DOMAIN ObsOf(h, seq[j], sat) :
                  ObsOf(h, seq[i], sat)[key] # ObsOf(h, seq[j], sat)[key]

Orderings(n) == {p \in [1..n -> 1..n] : \A i, j \in 1..n : p[i] = p[j] => i = j}

Permute(seq, p) == [i \in 1..Len(seq) |-> seq[p[i]]]

\* What merging seq on heap h can give when the entries are first merged in
\* groups of neighbours, in every way of grouping them
RECURSIVE Groupings(_, _)
Groupings(h, seq) ==
    {merge(h, seq)} \cup
    UNION {UNION {{merge(b.heap, <<a.res, b.res>>) :
                      b \in Groupings(a.heap, SubSeq(seq, k + 1, Len(seq)))} :
                  a \in Groupings(h, SubSeq(seq, 1, k))} :
           k \in 1..(Len(seq) - 1)}

\* C1 as stated: over entries of one epoch, every permutation and every
\* grouping gives the EpochRecord merge returns, also when two entries give
\* different values to one observable; no entry at all gives None.
C1_OrderIndependent ==
    [][(op' = "merge" /\ SameEpoch(heap, measdict)) =>
          /\ \A p \in Orderings(Len(measdict)) :
                \A g \in Groupings(heap, Permute(measdict, p)) :
                    Deref(g.heap, g.res) = Deref(heap', res')
          /\ NonNone(measdict) = {} => res' = None]_vars

\* C1 (amended): over entries of one epoch, merge gives None when there is no
\* entry; every grouping gives the EpochRecord merge returns; each observable
\* of the result has the value of the last entry that carries it, so every
\* permutation gives the same EpochRecord provided no two entries give
\* different values to one observable of one satellite.
C1_LastEntryWins ==
    [][(op' = "merge" /\ SameEpoch(heap, measdict)) =>
          LET R == Deref(heap', res')
              n == Len(measdict)
          IN  /\ NonNone(measdict) = {} => res' = None
              /\ \A g \in Groupings(heap, measdict) : Deref(g.heap, g.res) = R
              /\ NonNone(measdict) # {} =>
                    /\ satsin(R) = UNION {satsin(heap[measdict[i].ref]) :
                                            i \in NonNone(measdict)}
                    /\ \A sat \in satsin(R) :
                          /\ DOMAIN R[sat] =
                                {key \in UNION {DOMAIN R[s] : s \in satsin(R)} :
                                    \E i \in 1..n : Carries(heap, measdict[i], sat, key)}
                          /\ \A key \in DOMAIN R[sat] :
                                LET last == CHOOSE i \in 1..n :
                                        /\ Carries(heap, measdict[i], sat, key)
                                        /\ \A j \in (i + 1)..n :
                                              ~Carries(heap, measdict[j], sat, key)
                                IN  R[sat][key] = ObsOf(heap, measdict[last], sat)[key]
              /\ ~Conflict(heap, measdict) =>
                    \A p \in Orderings(n) :
                        \A g \in Groupings(heap, Permute(measdict, p)) :
                            Deref(g.heap, g.res) = R]_vars

\* Three entries of one epoch were merged into a record of two satellites,
\* one of them with two observables
C1_Witness ==
    /\ op = "merge"
    /\ res # None
    /\ Len(measdict) = MaxLen
    /\ NonNone(measdict) = 1..MaxLen
    /\ outcome.stderr = 0
    /\ Cardinality(satsin(heap[res.ref])) = 2
    /\ \E sat \in satsin(heap[res.ref]) : Cardinality(DOMAIN ObsOf(heap, res, sat)) = 2

\* C2: the record merge returns has the epoch of the first entry that is not
\* None, holds only values of entries with that epoch, and is what merging
\* the entries of that epoch alone gives: an entry of another epoch is
\* dropped (with one diagnostic each) and the entries after it are merged.
C2_EpochOfFirst ==
    [][op' = "merge" =>
          IF NonNone(measdict) = {} THEN res' = None
          ELSE LET first == CHOOSE i \in NonNone(measdict) :
                                \A j \in NonNone(measdict) : i <= j
                   e0 == EpochOf(heap, measdict[first])
                   R == Deref(heap', res')
                   Kept(m) == m # None /\ EpochOf(heap, m) = e0
                   kept == merge(heap, SelectSeq(measdict, Kept))
                   dropped == {i \in NonNone(measdict) :
                                  EpochOf(heap, measdict[i]) # e0}
               IN  /\ R[EPOCH_STR] = e0
                   /\ \A sat \in satsin(R) : \A key \in DOMAIN R[sat] :
                         \E i \in NonNone(measdict) :
                             /\ EpochOf(heap, measdict[i]) = e0
                             /\ Carries(heap, measdict[i], sat, key)
                             /\ ObsOf(heap, measdict[i], sat)[key] = R[sat][key]
                   /\ R = Deref(kept.heap, kept.res)
                   /\ outcome'.stderr = Cardinality(dropped)]_vars

\* An entry of another epoch stood between two entries of the first epoch,
\* and the entry after it was merged
C2_Witness ==
    /\ op = "merge"
    /\ res # None
    /\ Len(measdict) = 3
    /\ NonNone(measdict) = 1..3
    /\ EpochOf(heap, measdict[2]) # EpochOf(heap, res)
    /\ EpochOf(heap, measdict[3]) = EpochOf(heap, res)
    /\ outcome.stderr = 1
    /\ Cardinality(satsin(heap[res.ref])) = 2

----------------------------------------------------------------------------
(* Log rows given to the engine *)

\* The row of one signal: the 13 fields of a Raw line that the engine reads
Row(c, svid, f, state, adrstate, tn, fbn, bn, ton, svtime, rate, adr, cn0) ==
    [ConstellationType |-> c, Svid |-> svid, CarrierFrequencyHz |-> f,
     State |-> state, AccumulatedDeltaRangeState |-> adrstate,
     TimeNanos |-> tn, FullBiasNanos |-> fbn, BiasNanos |-> bn,
     TimeOffsetNanos |-> ton, ReceivedSvTimeNanos |-> svtime,
     PseudorangeRateMetersPerSecond |-> rate, AccumulatedDeltaRangeMeters |-> adr,
     Cn0DbHz |-> cn0]

\* Carrier frequencies, in units of 10 kHz: GPS L1, GLONASS L1 (channel -4),
\* L5, BeiDou B1I, and the unset field; then two that match no band
\* (multipliers 152 and 120)
ClassifiableFreqs == {Num(157542), Num(159975), Num(117645), Num(156110), Str("")}
OtherFreqs == {Num(155496), Num(122760)}

\* The flags of State that the engine reads
SyncBits ==
    {STATE_CODE_LOCK, STATE_BIT_SYNC, STATE_SUBFRAME_SYNC, STATE_TOW_DECODED,
     STATE_SYMBOL_SYNC, STATE_GLO_STRING_SYNC, STATE_GLO_TOD_DECODED,
     STATE_GAL_E1BC_CODE_LOCK, STATE_GAL_E1C_2ND_CODE_LOCK,
     STATE_GAL_E1B_PAGE_SYNC, STATE_SBAS_SYNC}

RECURSIVE Mask(_)
Mask(flags) == IF flags = {} THEN 0
               ELSE LET b == CHOOSE x \in flags : TRUE IN b + Mask(flags \ {b})

Range(seq) == {seq[i] : i \in 1..Len(seq)}

\* Most flags that the State values of the rows have set, or lack
MaxFlags == 2

\* State values: at most MaxFlags flags set, at most MaxFlags flags missing,
\* and, for each list of flags check_sync_state tests, exactly those flags
\* and those flags but one
StateValues ==
    {Mask(fl) : fl \in {x \in SUBSET SyncBits :
                          \/ Cardinality(x) <= MaxFlags
                          \/ Cardinality(SyncBits \ x) <= MaxFlags}}
    \cup UNION {LET req == Range(SyncFlags(c, b, e))
                IN  {Mask(req)} \cup {Mask(req \ {x}) : x \in req} :
                c \in DOMAIN CONSTELLATION_LETTER, b \in {1, 2, 5},
                e \in {0, STATE_GAL_E1C_2ND_CODE_LOCK}}

\* Reception times of week (in ticks) of the rows: noon of each day, the
\* first and the last seconds of the week
RxTows ==
    {Secs(d * DAYSEC + 43200) + 1 : d \in 0..6}
    \cup {0, Secs(5), Secs(GPS_WEEKSECS - 5) + 2}

\* FullBiasNanos of a row received tow ticks into week 2 at TimeNanos 0
FullBiasAt(tow) == -(2 * Secs(GPS_WEEKSECS) + tow)

\* ReceivedSvTimeNanos of a signal of constellation c received tow ticks into
\* the GPS week after travelling for travel ticks: GPS time of week, but
\* BeiDou time of week for BeiDou and GLONASS time of day for GLONASS
SvTimeAt(c, tow, travel) ==
    IF c = CONSTELLATION_GLONASS
    THEN (tow - travel - Secs(CURRENT_GPS_LEAP_SECOND) + Secs(GLOT_TO_UTC))
             % Secs(DAYSEC)
    ELSE IF c = CONSTELLATION_BEIDOU
    THEN (tow - travel - Secs(BDST_TO_GPST)) % Secs(GPS_WEEKSECS)
    ELSE (tow - travel) % Secs(GPS_WEEKSECS)

DefaultTow == Secs(3 * DAYSEC + 43200) + 1

\* Rows of every constellation and band with every State value
ValidityRows ==
    {Row(c, 5, f, st, adrst, Num(0), FullBiasAt(DefaultTow), Num(0), Num(0),
         SvTimeAt(c, DefaultTow, 1), 2, 3, 40) :
        c \in DOMAIN CONSTELLATION_LETTER, f \in ClassifiableFreqs,
        st \in StateValues, adrst \in {0, ADR_STATE_VALID}}

\* Rows with the anomalies the engine meets: constellation types outside the
\* table, GLONASS frequency channel numbers for Svid, unclassifiable
\* frequencies, fields the parser left as text
AnomalyRows ==
    {Row(c, svid, f, st, adrst, tn, FullBiasAt(DefaultTow), bn, to,
         SvTimeAt(CONSTELLATION_GPS, DefaultTow, 1), 2, 3, 40) :
        c \in 0..7, svid \in {5, 50, 51, 93}, f \in ClassifiableFreqs \cup OtherFreqs,
        st \in {0, Mask(SyncBits)}, adrst \in {0, ADR_STATE_VALID},
        tn \in {Num(0), Str("")}, bn \in {Num(0), Str("")}, to \in {Num(0), Str("")}}

\* Rows with valid State at several reception times, travel times and clock
\* fields
TimeRows ==
    {Row(c, 5, Num(157542), Mask(SyncBits \ {STATE_GAL_E1C_2ND_CODE_LOCK}),
         ADR_STATE_VALID, Num(0), FullBiasAt(tow), bn, to,
         SvTimeAt(c, tow, travel), rate, adr, 40) :
        c \in {CONSTELLATION_GPS, CONSTELLATION_GLONASS, CONSTELLATION_BEIDOU,
               CONSTELLATION_GALILEO},
        tow \in RxTows, travel \in {0, 1, Secs(11), Secs(302401), -Secs(302401)},
        bn \in {Num(0), Num(3)}, to \in {Num(0), Num(1)},
        rate \in {0, 2}, adr \in {0, 3}}

ProcessOptions ==
    [fullbiasnanos : {None, Num(FullBiasAt(Secs(100)))},
     integerize : BOOLEAN, pseudorange_bias : {0, 1}]

----------------------------------------------------------------------------
(* Specification SpecProcess: process applied to one row *)

InitProcess ==
    /\ Idle
    /\ \/ /\ measurement \in ValidityRows
          /\ options \in {o \in ProcessOptions :
                            o.fullbiasnanos = None
                            /\ (o.integerize <=> o.pseudorange_bias = 1)}
       \/ /\ measurement \in AnomalyRows
          /\ options \in {o \in ProcessOptions :
                            o.fullbiasnanos = None /\ o.pseudorange_bias = 0}
       \/ /\ measurement \in TimeRows
          /\ options \in ProcessOptions
    /\ measdict = <<>>
    /\ heap = <<>>
    /\ res = None
    /\ batches = <<>>
    /\ tRxSeconds = 0
    /\ tTxSeconds = 0
    /\ frequency = Str("")

Process ==
    /\ op = ""
    /\ outcome' = process(measurement, options.fullbiasnanos, options.integerize,
                          options.pseudorange_bias)
    /\ op' = "process"
    /\ UNCHANGED <<measdict, heap, res, measurement, options, batches,
                   tRxSeconds, tTxSeconds, frequency, lines, gen>>

NextProcess == Process

SpecProcess == InitProcess /\ [][NextProcess]_vars

----------------------------------------------------------------------------
(* Properties of process (SpecProcess) *)

\* The row with flag b of State cleared
ClearFlag(m, b) == [m EXCEPT !["State"] = @ - BitAnd(@, b)]

\* The row with ADR_STATE_VALID cleared
ClearAdrValid(m) ==
    [m EXCEPT !["AccumulatedDeltaRangeState"] = @ - BitAnd(@, ADR_STATE_VALID)]

Run(m) == process(m, options.fullbiasnanos, options.integerize,
                  options.pseudorange_bias)

\* The four values of the record rec that process returned for row m, by the
\* letter of the observable
Observables(m, rec) ==
    LET obs == rec[get_satname(m).v]
        code == get_obscode(m).v
    IN  [C |-> obs["C" \o code], L |-> obs["L" \o code],
         D |-> obs["D" \o code], S |-> obs["S" \o code]]

\* State values with every flag the row may need: all flags, and exactly
\* the flags check_sync_state tests on either branch
FullStates(m) ==
    {Mask(SyncBits)} \cup
    {Mask(Range(SyncFlags(m["ConstellationType"],
                          get_rnx_band_from_freq(get_frequency(m)).v, e))) :
        e \in {0, STATE_GAL_E1C_2ND_CODE_LOCK}}

\* process returned a record for the row
Processed == op = "process" /\ outcome.ok /\ outcome.v # None

RequiredFlags(m) ==
    Range(SyncFlags(m["ConstellationType"],
                    get_rnx_band_from_freq(get_frequency(m)).v, m["State"]))

SyncAndAdrValid(m) ==
    /\ check_sync_state(m).ok
    /\ BitAnd(m["AccumulatedDeltaRangeState"], ADR_STATE_VALID) # 0

\* C4 as stated: with all required flags and a valid ADR state the
\* pseudorange and the carrier phase are not 0; clearing one required flag
\* changes nothing but the pseudorange, which becomes 0; clearing
\* ADR_STATE_VALID changes nothing but the carrier phase, which becomes 0.
C4_SingleFlag ==
    (Processed /\ SyncAndAdrValid(measurement)) =>
        LET sat == get_satname(measurement).v
            code == get_obscode(measurement).v
        IN  /\ outcome.v[sat]["C" \o code] # 0
            /\ outcome.v[sat]["L" \o code] # 0
            /\ \A b \in RequiredFlags(measurement) :
                  /\ Run(ClearFlag(measurement, b)).ok
                  /\ Run(ClearFlag(measurement, b)).v =
                        [outcome.v EXCEPT ![sat]["C" \o code] = 0]
            /\ Run(ClearAdrValid(measurement)).ok
            /\ Run(ClearAdrValid(measurement)).v =
                  [outcome.v EXCEPT ![sat]["L" \o code] = 0]

\* Galileo on band 1: the only rows whose observable code depends on State
GalileoE1(m) ==
    /\ m["ConstellationType"] = CONSTELLATION_GALILEO
    /\ get_rnx_band_from_freq(get_frequency(m)) = Ok(1)

\* C4 (amended): with all required flags and a valid ADR state, the carrier
\* phase is 0 only if AccumulatedDeltaRangeMeters is 0 (the pseudorange may
\* be 0).  Clearing one required flag gives a record of the same epoch and
\* satellite whose four values differ only in the pseudorange, which is 0,
\* and whose observable code is the same except for Galileo on band 1, where
\* the attribute may change; the one flag whose clearing may leave the check
\* passing, and the pseudorange as it was, is STATE_GAL_E1C_2ND_CODE_LOCK of
\* Galileo on band 1.  Clearing ADR_STATE_VALID changes nothing but the
\* carrier phase, which becomes 0.
C4_SingleFlagAmended ==
    (Processed /\ SyncAndAdrValid(measurement)) =>
        LET sat == get_satname(measurement).v
            code == get_obscode(measurement).v
            values == Observables(measurement, outcome.v)
        IN  /\ values.L = 0 <=> measurement["AccumulatedDeltaRangeMeters"] = 0
            /\ \A b \in RequiredFlags(measurement) :
                  LET cleared == ClearFlag(measurement, b)
                      got == Run(cleared)
                  IN  /\ got.ok
                      /\ DOMAIN got.v = DOMAIN outcome.v
                      /\ got.v[EPOCH_STR] = outcome.v[EPOCH_STR]
                      /\ IF check_sync_state(cleared).ok
                         THEN /\ GalileoE1(measurement)
                              /\ b = STATE_GAL_E1C_2ND_CODE_LOCK
                              /\ Observables(cleared, got.v) = values
                         ELSE Observables(cleared, got.v) = [values EXCEPT !.C = 0]
                      /\ get_obscode(cleared).v # code => GalileoE1(measurement)
                      /\ ~GalileoE1(measurement) =>
                            got.v = [outcome.v EXCEPT ![sat]["C" \o code] = 0]
            /\ Run(ClearAdrValid(measurement)).ok
            /\ Run(ClearAdrValid(measurement)).v =
                  [outcome.v EXCEPT ![sat]["L" \o code] = 0]

\* A row with exactly the flags its constellation requires, a valid ADR
\* state and non-zero pseudorange and carrier phase was processed
C4_Witness ==
    /\ Processed
    /\ SyncAndAdrValid(measurement)
    /\ measurement["State"] = Mask(RequiredFlags(measurement))
    /\ Cardinality(RequiredFlags(measurement)) >= 4
    /\ Observables(measurement, outcome.v).C # 0
    /\ Observables(measurement, outcome.v).L # 0

\* C5 as stated: process raises only when TimeNanos is not a number
C5_OnlyTimeNanosRaises ==
    (op = "process" /\ ~outcome.ok) => ~IsNum(measurement["TimeNanos"])

\* C5 (amended): process raises KeyError when ConstellationType is outside
\* 0-6; otherwise it returns None, with a diagnostic, when the satellite id
\* is invalid (GLONASS Svid > 50); otherwise it raises ValueError when the
\* carrier frequency is unclassifiable or TimeNanos is not a number;
\* otherwise it returns a record, with pseudorange 0 when sync flags are
\* missing and carrier phase 0 when the ADR flag is missing, whether or not
\* BiasNanos and TimeOffsetNanos are numbers.
C5_Propagation ==
    op = "process" =>
        LET m == measurement
            classifiable == get_rnx_band_from_freq(get_frequency(m)).ok
        IN  IF m["ConstellationType"] \notin 0..6
            THEN ~outcome.ok /\ outcome.exc = "KeyError"
            ELSE IF m["ConstellationType"] = CONSTELLATION_GLONASS /\ m["Svid"] > 50
            THEN outcome = Return(None, <<"satname">>)
            ELSE IF ~classifiable \/ ~IsNum(m["TimeNanos"])
            THEN ~outcome.ok /\ outcome.exc = "ValueError"
            ELSE /\ Processed
                 /\ ~check_sync_state(m).ok => Observables(m, outcome.v).C = 0
                 /\ BitAnd(m["AccumulatedDeltaRangeState"], ADR_STATE_VALID) = 0
                       => Observables(m, outcome.v).L = 0

\* A row of a known constellation with a valid satellite id, an
\* unclassifiable frequency and a number for TimeNanos made process raise
C5_Witness ==
    /\ op = "process"
    /\ ~outcome.ok
    /\ outcome.exc = "ValueError"
    /\ get_satname(measurement).ok
    /\ IsNum(measurement["TimeNanos"])
    /\ measurement["CarrierFrequencyHz"] \in OtherFreqs

\* A row whose BiasNanos and TimeOffsetNanos are text and whose State and
\* ADR state are 0 gave a record with pseudorange and carrier phase 0
C5_WitnessDegraded ==
    /\ Processed
    /\ ~IsNum(measurement["BiasNanos"])
    /\ ~IsNum(measurement["TimeOffsetNanos"])
    /\ outcome.stderr = <<"sync", "adr">>

----------------------------------------------------------------------------
(* Batch operations: get_obslist and get_glo_freq_chn_list *)

\* The measurements of the batches in the order the two nested loops visit
\* them
RECURSIVE Flatten(_)
Flatten(bs) == IF bs = <<>> THEN <<>> ELSE Head(bs) \o Flatten(Tail(bs))

\* The observable codes get_obscode can return, in the order sorted() puts
\* them (digits before letters, letters alphabetically)
SortedObsCodes == <<"1B", "1C", "2C", "2I", "5Q">>

\* A variant of sorted that leaves the list in the order of first appearance
unsorted(arr) == arr

\* sorted(arr)
sorted(arr) == SelectSeq(SortedObsCodes, LAMBDA o : o \in {arr[i] : i \in DOMAIN arr})

\* A variant of ExpandObs that declares only the pseudorange of each code
ExpandObsPseudorangeOnly(arr) == [i \in 1..Len(arr) |-> "C" \o arr[i]]

\* [ m + o for o in arr for m in OBS_LIST ]
ExpandObs(arr) ==
    [i \in 1..(Len(arr) * Len(OBS_LIST)) |->
        OBS_LIST[((i - 1) % Len(OBS_LIST)) + 1]
            \o arr[((i - 1) \div Len(OBS_LIST)) + 1]]

\* The loops of get_obslist over the measurements ms, obslist being the dict
\* built so far
RECURSIVE get_obslist_loop(_, _)
get_obslist_loop(obslist, ms) ==
    IF ms = <<>> THEN Ok(obslist)
    ELSE LET m == Head(ms)
             obscode == get_obscode(m)
             constellation == get_constellation(m)
         IN  IF ~obscode.ok THEN obscode
             ELSE IF ~constellation.ok THEN constellation
             ELSE LET c == constellation.v
                      arr == IF c \in DOMAIN obslist THEN obslist[c] ELSE <<>>
                      arr2 == IF \E i \in DOMAIN arr : arr[i] = obscode.v
                              THEN arr ELSE Append(arr, obscode.v)
                  IN  get_obslist_loop(
                          [k \in DOMAIN obslist \cup {c} |->
                              IF k = c THEN arr2 ELSE obslist[k]],
                          Tail(ms))

get_obslist(bs) ==
    LET built == get_obslist_loop(<<>>, Flatten(bs))
    IN  IF ~built.ok THEN built
        ELSE Ok([c \in DOMAIN built.v |-> ExpandObs(sorted(built.v[c]))])

\* The loops of get_glo_freq_chn_list over the measurements ms
RECURSIVE get_glo_freq_chn_loop(_, _)
get_glo_freq_chn_loop(freq_chn_list, ms) ==
    IF ms = <<>> THEN Ok(freq_chn_list)
    ELSE LET m == Head(ms)
         IN  IF ~HasKey(m, "ConstellationType") THEN Raise("KeyError", 0)
             ELSE IF m["ConstellationType"] # CONSTELLATION_GLONASS
             THEN get_glo_freq_chn_loop(freq_chn_list, Tail(ms))
             ELSE LET sat == get_satname(m)
                  IN  IF ~sat.ok THEN sat
                      ELSE IF sat.v \in DOMAIN freq_chn_list
                      THEN get_glo_freq_chn_loop(freq_chn_list, Tail(ms))
                      ELSE IF ~HasKey(m, "CarrierFrequencyHz")
                      THEN Raise("KeyError", 0)
                      ELSE LET freq == get_frequency(m)
                           IN  IF ~IsNum(freq) THEN Raise("TypeError", 0)
                               ELSE LET freq_chn ==
                                            RoundDiv((freq.num - GLO_L1_CENTER_FREQ)
                                                         * GLO_L1_DFREQ_DEN,
                                                     GLO_L1_DFREQ_NUM)
                                    IN  get_glo_freq_chn_loop(
                                            [k \in DOMAIN freq_chn_list \cup {sat.v} |->
                                                IF k = sat.v THEN freq_chn
                                                ELSE freq_chn_list[k]],
                                            Tail(ms))

get_glo_freq_chn_list(bs) == get_glo_freq_chn_loop(<<>>, Flatten(bs))

----------------------------------------------------------------------------
(* Specification SpecBatches: the operations that visit the measurements   *)
(* of a list of batches                                                    *)

\* Most measurements in the batches
MaxMeasurements == 3

\* A row received at DefaultTow with a valid ADR state
BatchRowInState(c, svid, f, state) ==
    Row(c, svid, Num(f), state, ADR_STATE_VALID, Num(0), FullBiasAt(DefaultTow),
        Num(0), Num(0), SvTimeAt(c, DefaultTow, 1), 2, 3, 40)

\* A row with every sync flag its constellation needs and a valid ADR state
BatchRow(c, svid, f) ==
    BatchRowInState(c, svid, f, Mask(SyncBits \ {STATE_GAL_E1C_2ND_CODE_LOCK}))

\* GPS L1 and L5, GLONASS with an orbital slot number (channel -4), GLONASS
\* with a frequency channel number for Svid (channel +4), BeiDou B1I and
\* Galileo E1 (E1B); Galileo E1 tracking the E1C code, and GPS L1 with no
\* sync flag
BatchRows ==
    {BatchRowInState(CONSTELLATION_GALILEO, 11, 157542, Mask(SyncBits)),
     BatchRowInState(CONSTELLATION_GPS, 7, 157542, 0)} \cup
    {BatchRow(CONSTELLATION_GPS, 5, 157542),
     BatchRow(CONSTELLATION_GPS, 5, 117645),
     BatchRow(CONSTELLATION_GLONASS, 3, 159975),
     BatchRow(CONSTELLATION_GLONASS, 93, 160425),
     BatchRow(CONSTELLATION_BEIDOU, 7, 156110),
     BatchRow(CONSTELLATION_GALILEO, 11, 157542)}

MeasurementSeqs == UNION {[1..n -> BatchRows] : n \in 0..MaxMeasurements}

\* No batch, one batch, or two batches (either may be empty)
BatchesValues ==
    {<<>>} \cup {<<ms>> : ms \in MeasurementSeqs}
    \cup UNION {{<<SubSeq(ms, 1, k), SubSeq(ms, k + 1, Len(ms))>> :
                    k \in 0..Len(ms)} : ms \in MeasurementSeqs}

DefaultOptions == [fullbiasnanos |-> None, integerize |-> FALSE, pseudorange_bias |-> 0]

InitBatches ==
    /\ Idle
    /\ batches \in BatchesValues
    /\ measurement = <<>>
    /\ options = DefaultOptions
    /\ measdict = <<>>
    /\ heap = <<>>
    /\ res = None
    /\ tRxSeconds = 0
    /\ tTxSeconds = 0
    /\ frequency = Str("")

GetObslist ==
    /\ op = ""
    /\ outcome' = get_obslist(batches)
    /\ op' = "get_obslist"
    /\ UNCHANGED <<measdict, heap, res, measurement, options, batches,
                   tRxSeconds, tTxSeconds, frequency, lines, gen>>

GetGloFreqChnList ==
    /\ op = ""
    /\ outcome' = get_glo_freq_chn_list(batches)
    /\ op' = "get_glo_freq_chn_list"
    /\ UNCHANGED <<measdict, heap, res, measurement, options, batches,
                   tRxSeconds, tTxSeconds, frequency, lines, gen>>

\* process applied to one of the measurements of the batches
ProcessMeasurement ==
    /\ op = ""
    /\ \E i \in DOMAIN Flatten(batches) :
          /\ measurement' = Flatten(batches)[i]
          /\ outcome' = process(measurement', options.fullbiasnanos,
                                options.integerize, options.pseudorange_bias)
    /\ op' = "process"
    /\ UNCHANGED <<measdict, heap, res, options, batches, tRxSeconds,
                   tTxSeconds, frequency, lines, gen>>

\* The EpochRecord of a batch: every measurement processed, the results
\* merged (the control flow of the converter that calls the engine)
EpochRecord(batch) ==
    LET entries == [j \in DOMAIN batch |->
                       process(batch[j], options.fullbiasnanos, options.integerize,
                               options.pseudorange_bias).v]
        st == merge(Alloc(entries), Refs(entries))
    IN  Deref(st.heap, st.res)

\* The EpochRecords of the batches, or what process raised first
convert(bs) ==
    LET raised == {i \in DOMAIN Flatten(bs) :
                      ~process(Flatten(bs)[i], options.fullbiasnanos,
                               options.integerize, options.pseudorange_bias).ok}
    IN  IF raised # {}
        THEN process(Flatten(bs)[CHOOSE i \in raised : \A j \in raised : i <= j],
                     options.fullbiasnanos, options.integerize,
                     options.pseudorange_bias)
        ELSE Ok([i \in DOMAIN bs |-> EpochRecord(bs[i])])

ConvertBatches ==
    /\ op = ""
    /\ outcome' = convert(batches)
    /\ op' = "convert"
    /\ UNCHANGED <<measdict, heap, res, measurement, options, batches,
                   tRxSeconds, tTxSeconds, frequency, lines, gen>>

NextBatches ==
    GetObslist \/ GetGloFreqChnList \/ ProcessMeasurement \/ ConvertBatches

SpecBatches == InitBatches /\ [][NextBatches]_vars

----------------------------------------------------------------------------
(* Properties of the batch operations (SpecBatches) *)

\* A GLONASS measurement whose Svid is a frequency channel number
InvalidSatId(m) ==
    m["ConstellationType"] = CONSTELLATION_GLONASS /\ m["Svid"] > 50

\* The batches without the measurements whose satellite id is invalid
ValidMeasurements(bs) ==
    [i \in DOMAIN bs |-> SelectSeq(bs[i], LAMBDA m : ~InvalidSatId(m))]

HasInvalidSatId(bs) ==
    \E i \in DOMAIN Flatten(bs) : InvalidSatId(Flatten(bs)[i])

\* process skips a measurement with an invalid satellite id (it returns
\* None) and still processes the others
C6_ProcessSkips ==
    (op = "process" /\ HasInvalidSatId(batches)) =>
        /\ outcome.ok
        /\ (outcome.v = None) <=> InvalidSatId(measurement)

\* get_obslist gives what it gives for the batches without the invalid
\* measurements
C6_ObslistSkips ==
    (op = "get_obslist" /\ HasInvalidSatId(batches)) =>
        outcome = get_obslist(ValidMeasurements(batches))

\* get_glo_freq_chn_list gives what it gives for the batches without the
\* invalid measurements
C6_GloFreqChnListSkips ==
    (op = "get_glo_freq_chn_list" /\ HasInvalidSatId(batches)) =>
        outcome = get_glo_freq_chn_list(ValidMeasurements(batches))

\* C6: in process, get_obslist and get_glo_freq_chn_list a GLONASS
\* measurement with Svid > 50 is skipped, no error reaches the caller and
\* the other measurements of the batches are still processed
C6_InvalidSatIdSkipped ==
    /\ C6_ProcessSkips
    /\ C6_ObslistSkips
    /\ C6_GloFreqChnListSkips

----------------------------------------------------------------------------
(* Specification SpecWeek: check_week_crossover applied to two times of    *)
(* week                                                                    *)

\* Seconds of week at the start, the middle and the end of the week
WeekSeconds ==
    {0, 5, 10, 11, 302389, 302390, 302399, 302400, 302401, 302411, 604790,
     604799}

WeekTimes == {Secs(s) + t : s \in WeekSeconds, t \in 0..(TicksPerSec - 1)}

InitWeek ==
    /\ Idle
    /\ tRxSeconds \in WeekTimes
    /\ tTxSeconds \in WeekTimes
    /\ measdict = <<>>
    /\ heap = <<>>
    /\ res = None
    /\ measurement = <<>>
    /\ options = <<>>
    /\ batches = <<>>
    /\ frequency = Str("")

CheckWeekCrossover ==
    /\ op = ""
    /\ outcome' = Ok(check_week_crossover(tRxSeconds, tTxSeconds))
    /\ op' = "check_week_crossover"
    /\ UNCHANGED <<measdict, heap, res, measurement, options, batches,
                   tRxSeconds, tTxSeconds, frequency, lines, gen>>

NextWeek == CheckWeekCrossover

SpecWeek == InitWeek /\ [][NextWeek]_vars

\* C7: whenever the raw difference of the two times exceeds half a week in
\* magnitude, check_week_crossover returns 0 or a residual of at most 10
\* seconds in magnitude
C7_ResidualBounded ==
    (op = "check_week_crossover"
        /\ 2 * Abs(tRxSeconds - tTxSeconds) > Secs(GPS_WEEKSECS))
    => Abs(outcome.v) <= Secs(10)

----------------------------------------------------------------------------
(* Specification SpecBand: get_rnx_band_from_freq applied to a frequency   *)

\* Least and greatest multiplier of the chip rate among the frequencies
MinMultiplier == 113
MaxMultiplier == 158

\* Every frequency (in units of 10 kHz) whose nearest multiple of the chip
\* rate has a multiplier between the two, and the empty field
BandFrequencies ==
    {Str("")} \cup
    {Num(f) : f \in (MinMultiplier * CHIP_RATE - CHIP_RATE \div 2)
                    ..(MaxMultiplier * CHIP_RATE + CHIP_RATE \div 2)}

InitBand ==
    /\ Idle
    /\ frequency \in BandFrequencies
    /\ measdict = <<>>
    /\ heap = <<>>
    /\ res = None
    /\ measurement = <<>>
    /\ options = <<>>
    /\ batches = <<>>
    /\ tRxSeconds = 0
    /\ tTxSeconds = 0

GetRnxBandFromFreq ==
    /\ op = ""
    /\ outcome' = get_rnx_band_from_freq(frequency)
    /\ op' = "get_rnx_band_from_freq"
    /\ UNCHANGED <<measdict, heap, res, measurement, options, batches,
                   tRxSeconds, tTxSeconds, frequency, lines, gen>>

NextBand == GetRnxBandFromFreq

SpecBand == InitBand /\ [][NextBand]_vars

\* The multiplier m of the chip rate nearest to the frequency f
Multiplier(f) ==
    CHOOSE m \in (MinMultiplier - 1)..(MaxMultiplier + 1) :
        2 * Abs(f.num - m * CHIP_RATE) <= CHIP_RATE

BandRaises == ~outcome.ok /\ outcome.exc = "ValueError"

\* C8 as stated: band 1 for every multiplier from 152 up, band 5 for 115, a
\* classification error for any other multiplier, band 1 for the empty field
C8_BandOneFrom152 ==
    op = "get_rnx_band_from_freq" =>
        IF frequency = Str("") THEN outcome = Ok(1)
        ELSE LET m == Multiplier(frequency)
             IN  IF m >= 152 THEN outcome = Ok(1)
                 ELSE IF m = 115 THEN outcome = Ok(5)
                 ELSE BandRaises

\* C8 (amended): band 1 for every multiplier from 154 up, band 2 for 153,
\* band 5 for 115, a classification error for any other multiplier (152
\* among them), band 1 for the empty field
C8_BandOneFrom154 ==
    op = "get_rnx_band_from_freq" =>
        IF frequency = Str("") THEN outcome = Ok(1)
        ELSE LET m == Multiplier(frequency)
             IN  IF m >= 154 THEN outcome = Ok(1)
                 ELSE IF m = 153 THEN outcome = Ok(2)
                 ELSE IF m = 115 THEN outcome = Ok(5)
                 ELSE BandRaises

\* The BeiDou B1I frequency (multiplier 153) was classified as band 2
C8_Witness ==
    /\ op = "get_rnx_band_from_freq"
    /\ frequency = Num(156110)
    /\ Multiplier(frequency) = 153
    /\ outcome = Ok(2)

\* A frequency of multiplier 152 was rejected
C8_Witness152 ==
    /\ op = "get_rnx_band_from_freq"
    /\ frequency # Str("")
    /\ Multiplier(frequency) = 152
    /\ BandRaises

----------------------------------------------------------------------------
(* Specification SpecSatname: get_satname applied to a constellation type  *)
(* and an Svid                                                             *)

\* Greatest Svid
MaxSvid == 99

SatnameInputs ==
    {[ConstellationType |-> c, Svid |-> svid] :
        c \in DOMAIN CONSTELLATION_LETTER, svid \in 0..MaxSvid}

InitSatname ==
    /\ Idle
    /\ measurement \in SatnameInputs
    /\ measdict = <<>>
    /\ heap = <<>>
    /\ res = None
    /\ options = <<>>
    /\ batches = <<>>
    /\ tRxSeconds = 0
    /\ tTxSeconds = 0
    /\ frequency = Str("")

GetSatname ==
    /\ op = ""
    /\ outcome' = get_satname(measurement)
    /\ op' = "get_satname"
    /\ UNCHANGED <<measdict, heap, res, measurement, options, batches,
                   tRxSeconds, tTxSeconds, frequency, lines, gen>>

NextSatname == GetSatname

SpecSatname == InitSatname /\ [][NextSatname]_vars

\* The two decimal digits of n < 100
TwoDigits(n) == Digit[(n \div 10) + 1] \o Digit[(n % 10) + 1]

\* C9: for GLONASS with Svid > 50 get_satname raises, and 50 is accepted;
\* otherwise the id is the constellation letter followed by the two digits
\* of the Svid (up to 99), and no other (ConstellationType, Svid) pair gets
\* the same id
C9_Injective ==
    op = "get_satname" =>
        LET c == measurement["ConstellationType"]
            svid == measurement["Svid"]
        IN  IF c = CONSTELLATION_GLONASS /\ svid > 50
            THEN ~outcome.ok /\ outcome.exc = "ValueError"
            ELSE /\ outcome.ok
                 /\ svid <= 99 =>
                       outcome.v = CONSTELLATION_LETTER[c] \o TwoDigits(svid)
                 /\ \A m2 \in SatnameInputs \ {measurement} :
                       get_satname(m2) # outcome

\* GLONASS Svid 50 got the id R50, and GLONASS Svid 51 was rejected in
\* another run
C9_Witness ==
    /\ op = "get_satname"
    /\ measurement = [ConstellationType |-> CONSTELLATION_GLONASS, Svid |-> 50]
    /\ outcome = Ok("R50")
    /\ ~get_satname([measurement EXCEPT !["Svid"] = 51]).ok

----------------------------------------------------------------------------
(* Specification SpecObscode: get_obscode applied to a mapping with or     *)
(* without State                                                           *)

ObscodeStates ==
    {0, STATE_GAL_E1B_PAGE_SYNC, STATE_GAL_E1C_2ND_CODE_LOCK,
     STATE_GAL_E1B_PAGE_SYNC + STATE_GAL_E1C_2ND_CODE_LOCK, Mask(SyncBits)}

ObscodeInputs ==
    {[CarrierFrequencyHz |-> f, ConstellationType |-> c] :
        f \in ClassifiableFreqs \cup OtherFreqs, c \in DOMAIN CONSTELLATION_LETTER}
    \cup
    {[CarrierFrequencyHz |-> f, ConstellationType |-> c, State |-> st] :
        f \in ClassifiableFreqs \cup OtherFreqs, c \in DOMAIN CONSTELLATION_LETTER,
        st \in ObscodeStates}

InitObscode ==
    /\ Idle
    /\ measurement \in ObscodeInputs
    /\ measdict = <<>>
    /\ heap = <<>>
    /\ res = None
    /\ options = <<>>
    /\ batches = <<>>
    /\ tRxSeconds = 0
    /\ tTxSeconds = 0
    /\ frequency = Str("")

GetObscode ==
    /\ op = ""
    /\ outcome' = get_obscode(measurement)
    /\ op' = "get_obscode"
    /\ UNCHANGED <<measdict, heap, res, measurement, options, batches,
                   tRxSeconds, tTxSeconds, frequency, lines, gen>>

NextObscode == GetObscode

SpecObscode == InitObscode /\ [][NextObscode]_vars

\* The documented example: GPS at 1575.42 MHz without any other field
GpsL1Example ==
    [CarrierFrequencyHz |-> Num(157542), ConstellationType |-> CONSTELLATION_GPS]

\* get_obscode is defined for a mapping that holds only CarrierFrequencyHz
\* and ConstellationType: it gives 1C for the documented example and raises
\* only when the frequency is unclassifiable
C10_DefinedWithoutState ==
    (op = "get_obscode" /\ ~HasKey(measurement, "State")) =>
        /\ measurement = GpsL1Example => outcome = Ok("1C")
        /\ get_rnx_band_from_freq(get_frequency(measurement)).ok => outcome.ok

\* Two mappings that agree on CarrierFrequencyHz and ConstellationType get
\* the same observable code
C10_IndependentOfState ==
    op = "get_obscode" =>
        \A m2 \in ObscodeInputs :
            (m2["CarrierFrequencyHz"] = measurement["CarrierFrequencyHz"]
                /\ m2["ConstellationType"] = measurement["ConstellationType"])
            => get_obscode(m2) = outcome

\* C10: the observable code is computed from the carrier frequency and the
\* constellation alone: get_obscode is defined without State and does not
\* depend on it
C10_FrequencyAndConstellationAlone ==
    /\ C10_DefinedWithoutState
    /\ C10_IndependentOfState

\* Among the mappings that hold State, only those of Galileo on band 1 get a
\* code that depends on it
C10_StateMattersForGalileoE1 ==
    (op = "get_obscode" /\ HasKey(measurement, "State")) =>
        \A m2 \in ObscodeInputs :
            (HasKey(m2, "State")
                /\ m2["CarrierFrequencyHz"] = measurement["CarrierFrequencyHz"]
                /\ m2["ConstellationType"] = measurement["ConstellationType"]
                /\ get_obscode(m2) # outcome)
            => (measurement["ConstellationType"] = CONSTELLATION_GALILEO
                   /\ outcome.ok /\ outcome.v \in {"1B", "1C"})

----------------------------------------------------------------------------
(* Properties of get_obslist (SpecBatches) *)

\* The band and the attribute of the observable code of measurement m
CodePair(m) ==
    LET band == get_rnx_band_from_freq(get_frequency(m)).v
    IN  [band |-> band,
         attr |-> get_rnx_attr(band, get_constellation(m).v, m["State"])]

\* Alphabetical rank of the attribute letters
LetterRank == ("B" :> 1) @@ ("C" :> 2) @@ ("I" :> 3) @@ ("Q" :> 4)

\* Lexicographic order of two codes: by band digit, then by attribute letter
PairBefore(p, q) ==
    \/ p.band < q.band
    \/ p.band = q.band /\ LetterRank[p.attr] < LetterRank[q.attr]

\* The codes seen for constellation letter c in the measurements ms
PairsOf(ms, c) ==
    {CodePair(ms[i]) : i \in {j \in DOMAIN ms : get_constellation(ms[j]).v = c}}

NoDuplicates(lst) == \A i, j \in DOMAIN lst : lst[i] = lst[j] => i = j

----------------------------------------------------------------------------
(* Properties of the GLONASS time conversion (SpecProcess) *)

\* The reception time of week of row m, in ticks: the receiver clock
\* (TimeNanos less the biases) taken into the GPS week, less TimeOffsetNanos
ReceptionTow(m) ==
    LET fb == IF options.fullbiasnanos = None THEN m["FullBiasNanos"]
              ELSE options.fullbiasnanos.num
        bn == IF IsNum(m["BiasNanos"]) THEN m["BiasNanos"].num ELSE 0
        to == IF IsNum(m["TimeOffsetNanos"]) THEN m["TimeOffsetNanos"].num ELSE 0
    IN  ((m["TimeNanos"].num - (fb + bn)) % Secs(GPS_WEEKSECS)) - to

\* The GLONASS time of day of the instant travel ticks before the reception
\* of row m
GlonassTodAt(m, travel) ==
    (ReceptionTow(m) - travel - Secs(CURRENT_GPS_LEAP_SECOND) + Secs(GLOT_TO_UTC))
        % Secs(DAYSEC)

\* A GLONASS row with valid sync state was processed without integerize
GlonassProcessed ==
    /\ Processed
    /\ measurement["ConstellationType"] = CONSTELLATION_GLONASS
    /\ check_sync_state(measurement).ok
    /\ ~options.integerize

\* The pseudorange of the record is the one of a signal that travelled for
\* travel ticks
RangeIsTravel(travel) ==
    Observables(measurement, outcome.v).C =
        travel * SPEED_OF_LIGHT - options.pseudorange_bias

\* C12: for a GLONASS measurement with valid sync state whose signal
\* travelled between 0 and 10 seconds, the propagation time process computes
\* is the travel time, on every day of the week
C12_GlonassTravelTime ==
    GlonassProcessed =>
        \A travel \in 0..Secs(10) :
            measurement["ReceivedSvTimeNanos"] = GlonassTodAt(measurement, travel)
            => RangeIsTravel(travel)

\* The same, for the receptions at which the GPS week and the GLONASS day
\* that started in it agree: from 21:00:18 on Sunday (GPS time), when the
\* GLONASS Monday starts, until the last second of the week, and for signals
\* sent on the GLONASS day of the reception
C12_GlonassTravelTimeAfterSunday ==
    GlonassProcessed =>
        \A travel \in 0..Secs(10) :
            (/\ measurement["ReceivedSvTimeNanos"] = GlonassTodAt(measurement, travel)
             /\ ReceptionTow(measurement) >= Secs(DAYSEC - GLOT_TO_UTC + CURRENT_GPS_LEAP_SECOND)
             /\ ReceptionTow(measurement) < Secs(GPS_WEEKSECS) - TicksPerSec
             /\ GlonassTodAt(measurement, 0) >= travel + TicksPerSec)
            => RangeIsTravel(travel)

----------------------------------------------------------------------------
(* Properties of the epoch of process (SpecProcess) *)

\* The FullBiasNanos process uses for row m
FullBiasUsed(m) ==
    IF options.fullbiasnanos = None THEN m["FullBiasNanos"]
    ELSE options.fullbiasnanos.num

\* The receiver's estimate of GPS time for row m, in ticks since GPSTIME
ClockTime(m) ==
    m["TimeNanos"].num
        - (FullBiasUsed(m) + (IF IsNum(m["BiasNanos"]) THEN m["BiasNanos"].num ELSE 0))

\* The time of week of row m, counted from the start of the week that
\* FullBiasNanos falls in (negative when the clock time is before it)
TimeOfWeek(m) ==
    ClockTime(m) - FloorDiv(-FullBiasUsed(m), Secs(GPS_WEEKSECS)) * Secs(GPS_WEEKSECS)

\* The epoch is a whole second within half a second of the clock time when
\* integerize is on, and the clock time when it is off
EpochRounded ==
    LET epoch == outcome.v[EPOCH_STR]
        frac == ClockTime(measurement) - epoch
    IN  IF options.integerize
        THEN epoch % TicksPerSec = 0 /\ 2 * Abs(frac) <= TicksPerSec
        ELSE frac = 0

\* C13: with integerize, process rounds the time of week to the nearest
\* second, for every time of week, negative ones included: the epoch is a
\* whole second and the remainder frac is between -0.5 and 0.5 seconds;
\* without integerize frac is 0 and the epoch is the unrounded time
C13_RoundsToNearestSecond == Processed => EpochRounded

\* The same for the times of week from half a second before the start of the
\* week on
C13_RoundsFromMinusHalf ==
    (Processed /\ 2 * TimeOfWeek(measurement) >= -TicksPerSec) => EpochRounded

\* Rows with a time of week before the start of the week were processed with
\* integerize
C13_NegativeTimeOfWeek ==
    /\ Processed
    /\ options.integerize
    /\ TimeOfWeek(measurement) < 0

----------------------------------------------------------------------------
(* GnssLog: the parser of the lines of the log and the generator            *)
(* raw_batches.  A line is held split at its commas: its first field (tag)  *)
(* and the text of each field named by the header                           *)

BATCH_DELIMITER == "TimeNanos"

\* The fields of CONVERTER, which are converted with int
CONVERTER ==
    {"AccumulatedDeltaRangeState", "ConstellationType", "MultipathIndicator",
     "State", "Svid"}

\* float(valuestr) for the texts float converts
FloatOf == ("100" :> 100) @@ ("100.0" :> 100) @@ ("200" :> 200)

\* int(valuestr)
IntOf == ("1" :> 1) @@ ("2" :> 2)

field_conversion(fname, valuestr) ==
    IF fname \in CONVERTER THEN IntOf[valuestr]
    ELSE IF valuestr \in DOMAIN FloatOf THEN Num(FloatOf[valuestr])
    ELSE Str(valuestr)

parse_line(line) ==
    [fname \in DOMAIN line.fields |-> field_conversion(fname, line.fields[fname])]

\* A variant of batch_ends that ends the batch at every row
batch_ends_at_every_row(batch, line_fields) == Len(batch) > 0

\* The test of raw_batches for the end of a batch
batch_ends(batch, line_fields) ==
    /\ Len(batch) > 0
    /\ line_fields[BATCH_DELIMITER] # batch[1][BATCH_DELIMITER]

----------------------------------------------------------------------------
(* Specification SpecRaw: the generator raw_batches run over a log file,   *)
(* one iteration of its loop at a time; batches holds what it has yielded  *)

\* Most lines in the file, after the header
MaxLines == 4

LogLines ==
    {[tag |-> tag, fields |-> [TimeNanos |-> t, Svid |-> svid]] :
        tag \in {"Raw"}, t \in {"100", "100.0", "200", ""}, svid \in {"1", "2"}}
    \cup {[tag |-> "Fix", fields |-> [TimeNanos |-> "", Svid |-> "1"]]}

InitRaw ==
    /\ op = ""
    /\ outcome = NotRun
    /\ lines \in UNION {[1..n -> LogLines] : n \in 0..MaxLines}
    /\ gen = [pc |-> "loop", pos |-> 1, batch |-> <<>>]
    /\ batches = <<>>
    /\ measdict = <<>>
    /\ heap = <<>>
    /\ res = None
    /\ measurement = <<>>
    /\ options = <<>>
    /\ tRxSeconds = 0
    /\ tTxSeconds = 0
    /\ frequency = Str("")

RawFrame ==
    /\ op' = "raw_batches"
    /\ UNCHANGED <<measdict, heap, res, measurement, options, tRxSeconds,
                   tTxSeconds, frequency, lines, outcome>>

\* if not line.startswith('Raw'): continue
SkipLine ==
    /\ gen.pc = "loop"
    /\ gen.pos <= Len(lines)
    /\ lines[gen.pos].tag # "Raw"
    /\ gen' = [gen EXCEPT !.pos = @ + 1]
    /\ UNCHANGED batches
    /\ RawFrame

\* batch.append(line_fields), the batch not having ended
AppendLine ==
    /\ gen.pc = "loop"
    /\ gen.pos <= Len(lines)
    /\ lines[gen.pos].tag = "Raw"
    /\ ~batch_ends(gen.batch, parse_line(lines[gen.pos]))
    /\ gen' = [gen EXCEPT !.pos = @ + 1,
                          !.batch = Append(@, parse_line(lines[gen.pos]))]
    /\ UNCHANGED batches
    /\ RawFrame

\* yield batch, inside the loop
YieldBatch ==
    /\ gen.pc = "loop"
    /\ gen.pos <= Len(lines)
    /\ lines[gen.pos].tag = "Raw"
    /\ batch_ends(gen.batch, parse_line(lines[gen.pos]))
    /\ batches' = Append(batches, gen.batch)
    /\ gen' = [gen EXCEPT !.pc = "yielded"]
    /\ RawFrame

\* The generator resumed after the yield inside the loop: batch = [] and
\* batch.append(line_fields)
ResumeBatch ==
    /\ gen.pc = "yielded"
    /\ gen' = [pc |-> "loop", pos |-> gen.pos + 1,
               batch |-> <<parse_line(lines[gen.pos])>>]
    /\ UNCHANGED batches
    /\ RawFrame

\* yield batch, after the loop
YieldLast ==
    /\ gen.pc = "loop"
    /\ gen.pos > Len(lines)
    /\ batches' = Append(batches, gen.batch)
    /\ gen' = [gen EXCEPT !.pc = "last"]
    /\ RawFrame

\* The generator resumed after the last yield: it returns
Exhausted ==
    /\ gen.pc = "last"
    /\ gen' = [gen EXCEPT !.pc = "done"]
    /\ UNCHANGED batches
    /\ RawFrame

NextRaw ==
    SkipLine \/ AppendLine \/ YieldBatch \/ ResumeBatch \/ YieldLast \/ Exhausted

SpecRaw == InitRaw /\ [][NextRaw]_vars

----------------------------------------------------------------------------
(* Properties of raw_batches (SpecRaw) *)

\* The rows of the Raw lines of the file, in the order of the file
RECURSIVE RawRows(_)
RawRows(ls) ==
    IF ls = <<>> THEN <<>>
    ELSE (IF Head(ls).tag = "Raw" THEN <<parse_line(Head(ls))>> ELSE <<>>)
             \o RawRows(Tail(ls))

GeneratorEnded == gen.pc \in {"last", "done"}

\* What C14 and its amended form share: one TimeNanos inside a batch,
\* different TimeNanos in consecutive batches, and the batches together are
\* the rows read so far (all the Raw rows once the generator has ended)
BatchesOfRows ==
    /\ \A b \in DOMAIN batches : \A i, j \in DOMAIN batches[b] :
          batches[b][i][BATCH_DELIMITER] = batches[b][j][BATCH_DELIMITER]
    /\ \A b \in DOMAIN batches : \A c \in DOMAIN batches :
          (c = b + 1 /\ batches[b] # <<>> /\ batches[c] # <<>>)
          => batches[b][1][BATCH_DELIMITER] # batches[c][1][BATCH_DELIMITER]
    /\ Flatten(batches)
          \o (IF GeneratorEnded \/ gen.pc = "yielded" THEN <<>> ELSE gen.batch)
          = RawRows(SubSeq(lines, 1,
                           IF GeneratorEnded THEN Len(lines) ELSE gen.pos - 1))

\* C14 as stated: besides, every batch yielded is non-empty
C14_NonEmptyBatches ==
    /\ BatchesOfRows
    /\ \A b \in DOMAIN batches : batches[b] # <<>>

\* C14 (amended): besides, every batch yielded is non-empty when the file
\* has a Raw row, and when it has none one empty batch is yielded
C14_BatchesOfRows ==
    /\ BatchesOfRows
    /\ RawRows(lines) # <<>> => \A b \in DOMAIN batches : batches[b] # <<>>
    /\ (RawRows(lines) = <<>> /\ GeneratorEnded) => batches = << <<>> >>

\* The generator ended after yielding two batches, one of them with two
\* rows whose TimeNanos were written differently in the file
C14_Witness ==
    /\ gen.pc = "done"
    /\ Len(batches) = 2
    /\ Len(batches[1]) = 2
    /\ lines[1].tag = "Raw" /\ lines[2].tag = "Raw"
    /\ lines[1].fields.TimeNanos # lines[2].fields.TimeNanos

\* The generator ended over a file without Raw rows
C14_WitnessNoRows ==
    /\ gen.pc = "done"
    /\ Len(lines) > 0
    /\ batches = << <<>> >>

----------------------------------------------------------------------------
(* Purity of merge (SpecMerge) *)

\* The dict objects of entry r on heap h: the entry and its per-satellite
\* observable maps
ObjectsOf(h, r) ==
    {r.ref} \cup {h[r.ref][sat].ref : sat \in satsin(h[r.ref])}

\* Every entry has after the call the contents it had before
EntriesUntouched ==
    \A i \in NonNone(measdict) :
        Deref(heap', measdict[i]) = Deref(heap, measdict[i])

\* The record returned shares no dict object with an entry, so that a change
\* to it changes no entry
ResultShared ==
    /\ res' # None
    /\ \E i \in NonNone(measdict) :
          ObjectsOf(heap', res') \cap ObjectsOf(heap', measdict[i]) # {}

\* C15: after merge returns, every entry of the sequence has the contents it
\* had before the call, and a later change to the record returned alters no
\* entry
C15_MergePure ==
    [][op' = "merge" => (EntriesUntouched /\ ~ResultShared)]_vars

\* What holds instead: an entry that is neither the first one nor one whose
\* satellite the record took over from it has the contents it had before
C15_FirstEntryIsResult ==
    [][op' = "merge" =>
          /\ NonNone(measdict) # {} =>
                res' = measdict[CHOOSE i \in NonNone(measdict) :
                                    \A j \in NonNone(measdict) : i <= j]
          /\ \A i \in NonNone(measdict) :
                ObjectsOf(heap', res') \cap ObjectsOf(heap', measdict[i]) = {}
                => Deref(heap', measdict[i]) = Deref(heap, measdict[i])]_vars

----------------------------------------------------------------------------
(* Code lock in check_sync_state (SpecProcess) *)

\* The State of row m has neither code lock flag
NoCodeLock(m) ==
    /\ BitAnd(m["State"], STATE_CODE_LOCK) = 0
    /\ BitAnd(m["State"], STATE_GAL_E1BC_CODE_LOCK) = 0

\* check_sync_state failed for the row and its pseudorange is 0
SyncRejected ==
    /\ ~check_sync_state(measurement).ok
    /\ Observables(measurement, outcome.v).C = 0

\* C16: for every constellation type 0-6 and every classifiable frequency, a
\* State without STATE_CODE_LOCK and without STATE_GAL_E1BC_CODE_LOCK makes
\* check_sync_state fail, and process gives pseudorange 0
C16_NoCodeLockRejected ==
    (Processed /\ NoCodeLock(measurement)) => SyncRejected

\* The same for every constellation and band except Galileo on band 2, for
\* which check_sync_state tests no flag
C16_NoCodeLockRejectedButGalileoB2 ==
    (/\ Processed
     /\ NoCodeLock(measurement)
     /\ ~(/\ measurement["ConstellationType"] = CONSTELLATION_GALILEO
          /\ get_rnx_band_from_freq(get_frequency(measurement)) = Ok(2)))
    => SyncRejected

\* A row of every constellation type on a classifiable frequency was
\* processed with State 0
C16_StateZeroProcessed ==
    /\ Processed
    /\ measurement["State"] = 0
    /\ measurement["ConstellationType"] = CONSTELLATION_GALILEO
    /\ get_rnx_band_from_freq(get_frequency(measurement)) = Ok(5)
    /\ SyncRejected

----------------------------------------------------------------------------
(* The catalog covers the records (SpecBatches) *)

\* The constellation letter of the satellite sat of a record of batch
LetterOf(batch, sat) ==
    get_constellation(batch[CHOOSE j \in DOMAIN batch :
                                get_satname(batch[j]) = Ok(sat)]).v

====
